---- MODULE Spec2Model ----
(***************************************************************************)
(* Model of blackhole-sim.py: the Particle class (constructor and update)  *)
(* and the integration loop of run_simulation (capture test followed by    *)
(* the call of update, for every particle, for every step).  The drawing   *)
(* calls of the loop read the particles and change nothing; they are not   *)
(* modelled.                                                               *)
(*                                                                         *)
(* Numbers.  The program computes in IEEE doubles.  The model computes in  *)
(* decimal fixed point: an integer n stands for the real n / ONE, and      *)
(* every multiplication, division and square root rounds its exact result  *)
(* to the nearest representable value, as the floating-point operation it  *)
(* models does.  The result of 0/0 (numpy: nan, with a warning and no      *)
(* exception) is the value NaNVec; it only ever arises for both            *)
(* components of a vector at once, and every later operation on it gives   *)
(* NaNVec again, while every comparison with it is false.                  *)
(***************************************************************************)
EXTENDS Integers, Sequences, FiniteSets, TLC

\* the fixed-point unit: 1.0 is represented by ONE
ONE == 1000

Abs(n) == IF n < 0 THEN -n ELSE n
Sgn(n) == IF n < 0 THEN -1 ELSE IF n > 0 THEN 1 ELSE 0
Max(a, b) == IF a >= b THEN a ELSE b
Min(a, b) == IF a <= b THEN a ELSE b

\* n / d rounded to the nearest integer, for n >= 0 and d > 0
RoundDiv(n, d) == (n + d \div 2) \div d

\* a * b in fixed point (float multiplication), rounded to nearest
FxMul(a, b) ==
  LET x == Abs(a)
      y == Abs(b)
      xh == x \div ONE
      xl == x % ONE
      yh == y \div ONE
      yl == y % ONE
  IN  Sgn(a) * Sgn(b) * (xh * y + xl * yh + RoundDiv(xl * yl, ONE))

\* a / b in fixed point (float division), rounded to nearest; b # 0.
\* Long division, one decimal digit of the quotient at a time.
FxDiv(a, b) ==
  LET x == Abs(a)
      y == Abs(b)
      q0 == x \div y
      r0 == x % y
      q1 == (10 * r0) \div y
      r1 == (10 * r0) % y
      q2 == (10 * r1) \div y
      r2 == (10 * r1) % y
      q3 == (10 * r2) \div y
      r3 == (10 * r2) % y
  IN  Sgn(a) * Sgn(b) * (q0 * ONE + 100 * q1 + 10 * q2 + q3 + (IF 2 * r3 >= y THEN 1 ELSE 0))

(***************************************************************************)
(* Double-width naturals <<hi, lo>> = hi * WBase + lo, for the sum of      *)
(* squares under the square root of np.linalg.norm.                        *)
(***************************************************************************)
WBase == 2^10

WMul(p, q) ==
  LET a == (p \div WBase) * q
      b == (p % WBase) * q
  IN  <<a + b \div WBase, b % WBase>>

WAdd(u, v) == <<u[1] + v[1] + (u[2] + v[2]) \div WBase, (u[2] + v[2]) % WBase>>

WLe(u, v) == u[1] < v[1] \/ (u[1] = v[1] /\ u[2] <= v[2])

\* the largest r in lo..hi with r * r <= n, given lo * lo <= n < (hi+1) * (hi+1)
RECURSIVE SqrtFloor(_, _, _)
SqrtFloor(n, lo, hi) ==
  IF lo >= hi THEN lo
  ELSE LET mid == (lo + hi + 1) \div 2
       IN  IF WLe(WMul(mid, mid), n) THEN SqrtFloor(n, mid, hi)
           ELSE SqrtFloor(n, lo, mid - 1)

\* vectors are <<x, y>>; NaNVec is the vector whose components are nan
NaNVec == <<>>

VecSub(a, b) == IF a = NaNVec \/ b = NaNVec THEN NaNVec ELSE <<a[1] - b[1], a[2] - b[2]>>
VecAdd(a, b) == IF a = NaNVec \/ b = NaNVec THEN NaNVec ELSE <<a[1] + b[1], a[2] + b[2]>>
VecScale(v, s) == IF v = NaNVec THEN NaNVec ELSE <<FxMul(v[1], s), FxMul(v[2], s)>>
\* v / s; a zero vector over zero is nan / nan
VecDiv(v, s) ==
  IF v = NaNVec THEN NaNVec
  ELSE IF s = 0 /\ v = <<0, 0>> THEN NaNVec
  ELSE <<FxDiv(v[1], s), FxDiv(v[2], s)>>

\* np.linalg.norm of a finite vector: sqrt(x*x + y*y), rounded to nearest
Norm(v) ==
  LET a == Abs(v[1])
      b == Abs(v[2])
      n == WAdd(WMul(a, a), WMul(b, b))
      r == SqrtFloor(n, Max(a, b), a + b)
  IN  IF WLe(n, WMul(r, r + 1)) THEN r ELSE r + 1


(***************************************************************************)
(* State.                                                                  *)
(*   cfg          the module-level configuration G, M, C, TIME_STEP        *)
(*   descriptors  the module-level list PARTICLES of initial states        *)
(*   pc           "setup": run_simulation not yet entered; "loop": inside  *)
(*                the step loop; "error": run_simulation raised;           *)
(*                "unit": no driver, update is called directly             *)
(*   schwarzschild_radius, particles   the locals of run_simulation        *)
(*   tick         the number of completed iterations of the step loop      *)
(*   i            the index in particles of the next particle of the       *)
(*                current iteration (Len(particles) + 1: all done)         *)
(*   last         observation of the last operation: which particle it     *)
(*                handled, the particle before it, the arguments of        *)
(*                update, and the return of update that was taken          *)
(*   capture_tick observation: per particle, the 0-based index of the      *)
(*                iteration whose capture test set is_captured, or -1      *)
(***************************************************************************)
VARIABLES cfg, descriptors, pc, schwarzschild_radius, particles, tick, i, last, capture_tick

vars == <<cfg, descriptors, pc, schwarzschild_radius, particles, tick, i, last, capture_tick>>

\* bound on the number of iterations of the step loop explored
MaxTicks == 30
\* bound on the path length up to which update is called directly
MaxPath == 3

STEPS == 1000

\* the configuration of the source: G = 1.0, M = 1000.0, C = 15.0, TIME_STEP = 0.1
SourceConfig == [G |-> 1 * ONE, M |-> 1000 * ONE, C |-> 15 * ONE, TIME_STEP |-> ONE \div 10]

G == cfg.G
M == cfg.M
C == cfg.C
TIME_STEP == cfg.TIME_STEP

\* the placeholder of a vertical position that offset_factor overrides
None == 0

\* the list PARTICLES of the source
PARTICLES == <<
  [pos |-> <<100 * ONE, 0>>, vel |-> <<0, 7500>>, is_photon |-> FALSE],
  [pos |-> <<-110 * ONE, 0>>, vel |-> <<0, -7000>>, is_photon |-> FALSE],
  [pos |-> <<0, 130 * ONE>>, vel |-> <<-6500, 0>>, is_photon |-> FALSE],
  [pos |-> <<0, -140 * ONE>>, vel |-> <<6000, 0>>, is_photon |-> FALSE],
  [pos |-> <<-250 * ONE, 50 * ONE>>, vel |-> <<7000, 0>>, is_photon |-> FALSE],
  [pos |-> <<-250 * ONE, None>>, vel |-> <<15 * ONE, 0>>, is_photon |-> TRUE, offset_factor |-> 1500],
  [pos |-> <<-250 * ONE, None>>, vel |-> <<15 * ONE, 0>>, is_photon |-> TRUE, offset_factor |-> 800] >>

\* NewParticle with the bug "self.path = []"
NewParticleEmptyPath(pos, vel, mass, is_photon) ==
  [pos |-> pos, vel |-> vel, mass |-> mass, path |-> <<>>,
   is_captured |-> FALSE, is_photon |-> is_photon]

\* class Particle, __init__
NewParticle(pos, vel, mass, is_photon) ==
  [pos |-> pos, vel |-> vel, mass |-> mass, path |-> <<pos>>,
   is_captured |-> FALSE, is_photon |-> is_photon]

\* "Photon speed correction": (vel / norm(vel)) * C
PhotonSpeedCorrection(vel) ==
  IF vel = NaNVec THEN NaNVec ELSE VecScale(VecDiv(vel, Norm(vel)), C)

\* Advance with the bug of advancing the position by the velocity of before the step
AdvanceOldVelocity(self, dt, r_vec, r_mag) ==
  LET force_mag == FxDiv(FxMul(FxMul(G, M), self.mass), FxMul(r_mag, r_mag))
      force_vec == VecScale(VecDiv(r_vec, r_mag), force_mag)
      acceleration == VecDiv(force_vec, self.mass)
      vel1 == VecAdd(self.vel, VecScale(acceleration, dt))
      vel2 == IF self.is_photon THEN PhotonSpeedCorrection(vel1) ELSE vel1
      pos2 == VecAdd(self.pos, VecScale(self.vel, dt))
  IN  [self EXCEPT !.vel = vel2, !.pos = pos2, !.path = Append(@, pos2)]

\* update, from "Newtonian gravitational force" to the append: r_mag # 0.
\* (r_mag * r_mag must not round to 0: r_mag >= 0.023, true of every call here)
Advance(self, dt, r_vec, r_mag) ==
  LET force_mag == FxDiv(FxMul(FxMul(G, M), self.mass), FxMul(r_mag, r_mag))
      force_vec == VecScale(VecDiv(r_vec, r_mag), force_mag)
      acceleration == VecDiv(force_vec, self.mass)
      vel1 == VecAdd(self.vel, VecScale(acceleration, dt))
      vel2 == IF self.is_photon THEN PhotonSpeedCorrection(vel1) ELSE vel1
      pos2 == VecAdd(self.pos, VecScale(vel2, dt))
  IN  [self EXCEPT !.vel = vel2, !.pos = pos2, !.path = Append(@, pos2)]

\* update on a particle whose position is nan: r_mag is nan, r_mag == 0 is
\* false, and velocity and position become (stay) nan
AdvanceNaN(self) ==
  [self EXCEPT !.vel = NaNVec, !.pos = NaNVec, !.path = Append(@, NaNVec)]

\* Update with the bug of no "if self.is_captured: return"
UpdateUnguarded(self, dt, black_hole_pos) ==
  LET r_vec == VecSub(black_hole_pos, self.pos)
  IN  IF r_vec = NaNVec THEN AdvanceNaN(self)
      ELSE LET r_mag == Norm(r_vec)
           IN  IF r_mag = 0 THEN self
               ELSE Advance(self, dt, r_vec, r_mag)

\* Update with the bug of no "if r_mag == 0: return": r_vec / r_mag is 0 / 0
UpdateNoZeroGuard(self, dt, black_hole_pos) ==
  IF self.is_captured THEN self
  ELSE LET r_vec == VecSub(black_hole_pos, self.pos)
       IN  IF r_vec = NaNVec THEN AdvanceNaN(self)
           ELSE LET r_mag == Norm(r_vec)
                IN  IF r_mag = 0 THEN AdvanceNaN(self)
                    ELSE Advance(self, dt, r_vec, r_mag)

\* which return of Particle.update a call takes
UpdateBranch(self, dt, black_hole_pos) ==
  IF self.is_captured THEN "captured"
  ELSE IF VecSub(black_hole_pos, self.pos) = NaNVec THEN "step"
  ELSE IF Norm(VecSub(black_hole_pos, self.pos)) = 0 THEN "zero"
  ELSE "step"

\* Particle.update
Update(self, dt, black_hole_pos) ==
  IF self.is_captured THEN self
  ELSE LET r_vec == VecSub(black_hole_pos, self.pos)
       IN  IF r_vec = NaNVec THEN AdvanceNaN(self)
           ELSE LET r_mag == Norm(r_vec)
                IN  IF r_mag = 0 THEN self
                    ELSE Advance(self, dt, r_vec, r_mag)

\* black_hole_pos of run_simulation
black_hole_pos == <<0, 0>>

\* InsideHorizon with the bug "<=" for "<"
InsideHorizonOrOn(particle) ==
  /\ particle.pos # NaNVec
  /\ Norm(VecSub(particle.pos, black_hole_pos)) <= schwarzschild_radius

\* dist_to_bh < schwarzschild_radius; false when the position is nan
InsideHorizon(particle) ==
  /\ particle.pos # NaNVec
  /\ Norm(VecSub(particle.pos, black_hole_pos)) < schwarzschild_radius

NoOp == [op |-> "none", idx |-> 0, pre |-> <<>>, dt |-> 0, bh |-> <<0, 0>>, branch |-> "none"]

\* run_simulation up to the step loop: the radius, then the particles
Setup ==
  /\ pc = "setup"
  /\ IF FxMul(C, C) = 0
     THEN /\ pc' = "error"          \* ZeroDivisionError
          /\ UNCHANGED <<schwarzschild_radius, particles, capture_tick>>
     ELSE LET r_s == FxDiv(FxMul(2 * G, M), FxMul(C, C))
              Resolve(p) == IF "offset_factor" \in DOMAIN p
                            THEN <<p.pos[1], FxMul(r_s, p.offset_factor)>>
                            ELSE p.pos
          IN  /\ schwarzschild_radius' = r_s
              /\ particles' = [k \in 1..Len(descriptors) |->
                     NewParticle(Resolve(descriptors[k]), descriptors[k].vel,
                                 ONE, descriptors[k].is_photon)]
              /\ capture_tick' = [k \in 1..Len(descriptors) |-> -1]
              /\ pc' = "loop"
  /\ last' = [NoOp EXCEPT !.op = "setup"]
  /\ UNCHANGED <<cfg, descriptors, tick, i>>

\* ParticleStep with the bug of calling update before the flag is set
ParticleStepLagged ==
  /\ pc = "loop"
  /\ tick < STEPS
  /\ tick < MaxTicks
  /\ i <= Len(particles)
  /\ LET particle == particles[i]
         updated == Update(particle, TIME_STEP, black_hole_pos)
     IN  /\ particles' = [particles EXCEPT ![i] =
                 IF InsideHorizon(particle) THEN [updated EXCEPT !.is_captured = TRUE]
                 ELSE updated]
         /\ capture_tick' = IF InsideHorizon(particle) /\ ~particle.is_captured
                            THEN [capture_tick EXCEPT ![i] = tick]
                            ELSE capture_tick
         /\ last' = [op |-> "particle", idx |-> i, pre |-> particle, dt |-> TIME_STEP,
                     bh |-> black_hole_pos,
                     branch |-> UpdateBranch(particle, TIME_STEP, black_hole_pos)]
  /\ i' = i + 1
  /\ UNCHANGED <<cfg, descriptors, pc, schwarzschild_radius, tick>>

\* ParticleStep with the bug of storing the result of the comparison in the
\* flag, after the call of update
ParticleStepStoreAfter ==
  /\ pc = "loop"
  /\ tick < STEPS
  /\ tick < MaxTicks
  /\ i <= Len(particles)
  /\ LET particle == particles[i]
         updated == Update(particle, TIME_STEP, black_hole_pos)
     IN  /\ particles' = [particles EXCEPT ![i] =
                 [updated EXCEPT !.is_captured = InsideHorizon(particle)]]
         /\ capture_tick' = IF InsideHorizon(particle) /\ ~particle.is_captured
                            THEN [capture_tick EXCEPT ![i] = tick]
                            ELSE capture_tick
         /\ last' = [op |-> "particle", idx |-> i, pre |-> particle, dt |-> TIME_STEP,
                     bh |-> black_hole_pos,
                     branch |-> UpdateBranch(particle, TIME_STEP, black_hole_pos)]
  /\ i' = i + 1
  /\ UNCHANGED <<cfg, descriptors, pc, schwarzschild_radius, tick>>

\* one iteration of "for particle in particles": capture test, then update
ParticleStep ==
  /\ pc = "loop"
  /\ tick < STEPS
  /\ tick < MaxTicks
  /\ i <= Len(particles)
  /\ LET particle == particles[i]
         tested == IF InsideHorizon(particle)
                   THEN [particle EXCEPT !.is_captured = TRUE]
                   ELSE particle
     IN  /\ particles' = [particles EXCEPT ![i] = Update(tested, TIME_STEP, black_hole_pos)]
         /\ capture_tick' = IF InsideHorizon(particle) /\ ~particle.is_captured
                            THEN [capture_tick EXCEPT ![i] = tick]
                            ELSE capture_tick
         /\ last' = [op |-> "particle", idx |-> i, pre |-> particle, dt |-> TIME_STEP,
                     bh |-> black_hole_pos,
                     branch |-> UpdateBranch(tested, TIME_STEP, black_hole_pos)]
  /\ i' = i + 1
  /\ UNCHANGED <<cfg, descriptors, pc, schwarzschild_radius, tick>>

\* the rest of one iteration of "for _ in range(STEPS)": drawing only
EndTick ==
  /\ pc = "loop"
  /\ tick < STEPS
  /\ tick < MaxTicks
  /\ i > Len(particles)
  /\ tick' = tick + 1
  /\ i' = 1
  /\ last' = [NoOp EXCEPT !.op = "end_tick"]
  /\ UNCHANGED <<cfg, descriptors, pc, schwarzschild_radius, particles, capture_tick>>

Next == Setup \/ ParticleStep \/ EndTick

(***************************************************************************)
(* The initial lists of particles explored: the list of the source, and    *)
(* lists that put particles at and around the horizon.                     *)
(***************************************************************************)
Scenarios == <<
  PARTICLES,
  \* inside the horizon, at rest
  << [pos |-> <<8 * ONE, 0>>, vel |-> <<0, 0>>, is_photon |-> FALSE] >>,
  \* at distance exactly r_s = 8.889, at rest; and just inside
  << [pos |-> <<8889, 0>>, vel |-> <<0, 0>>, is_photon |-> FALSE],
     [pos |-> <<0, -8888>>, vel |-> <<0, 0>>, is_photon |-> FALSE] >>,
  \* photons passing the horizon closely, and a particle falling in
  << [pos |-> <<-20 * ONE, None>>, vel |-> <<15 * ONE, 0>>, is_photon |-> TRUE, offset_factor |-> 800],
     [pos |-> <<-20 * ONE, None>>, vel |-> <<15 * ONE, 0>>, is_photon |-> TRUE, offset_factor |-> 1500],
     [pos |-> <<12 * ONE, 5 * ONE>>, vel |-> <<-3 * ONE, 0>>, is_photon |-> FALSE] >>,
  \* at the position of the body
  << [pos |-> <<0, 0>>, vel |-> <<2 * ONE, 0>>, is_photon |-> FALSE] >>,
  \* fast, grazing the horizon: inside it at the end of one step only
  << [pos |-> <<-9500, 8 * ONE>>, vel |-> <<100 * ONE, 0>>, is_photon |-> FALSE] >>,
  \* a photon that gravity stops in its first step
  << [pos |-> <<10 * ONE, 0>>, vel |-> <<1 * ONE, 0>>, is_photon |-> TRUE],
     [pos |-> <<30 * ONE, 0>>, vel |-> <<0, 5 * ONE>>, is_photon |-> FALSE] >> >>

InitBase ==
  /\ pc = "setup"
  /\ schwarzschild_radius = 0
  /\ particles = <<>>
  /\ tick = 0
  /\ i = 1
  /\ last = NoOp
  /\ capture_tick = <<>>

Init ==
  /\ cfg = SourceConfig
  /\ \E k \in 1..Len(Scenarios) : descriptors = Scenarios[k]
  /\ InitBase

Spec == Init /\ [][Next]_vars

(***************************************************************************)
(* Particle.update called directly, as a test of the class does: on a      *)
(* particle as constructed, with any time step and any body position, and  *)
(* on a particle whose is_captured a caller has set.                       *)
(***************************************************************************)
UnitPositions == { <<100 * ONE, 0>>, <<10 * ONE, 0>>, <<0, 0>>, <<3 * ONE, 4 * ONE>> }
UnitVelocities == { <<0, 7500>>, <<0, 0>>, <<1 * ONE, 0>>, <<15 * ONE, 0>> }
UnitMasses == { 1 * ONE, 2 * ONE }
UnitSteps == { ONE \div 10, ONE \div 2 }
UnitBodies == { <<0, 0>>, <<3 * ONE, 4 * ONE>>, <<100 * ONE, 0>> }

InitUpdate ==
  /\ cfg = SourceConfig
  /\ descriptors = <<>>
  /\ pc = "unit"
  /\ schwarzschild_radius = 0
  /\ \E pos \in UnitPositions, vel \in UnitVelocities, mass \in UnitMasses, is_photon \in BOOLEAN :
        particles = << NewParticle(pos, vel, mass, is_photon) >>
  /\ tick = 0
  /\ i = 1
  /\ last = NoOp
  /\ capture_tick = << -1 >>

\* the calls explored: the particle is at the body, or at least 1.0 away from
\* it, where the fixed-point r_mag * r_mag and force_mag neither vanish nor overflow
InRange(self, body) ==
  \/ self.is_captured
  \/ /\ self.pos # NaNVec
     /\ LET r == Norm(VecSub(body, self.pos)) IN r = 0 \/ (r >= ONE /\ r <= 500 * ONE)

\* particle.update(dt, body)
CallUpdate(dt, body) ==
  /\ pc = "unit"
  /\ Len(particles[1].path) < MaxPath
  /\ InRange(particles[1], body)
  /\ particles' = [particles EXCEPT ![1] = Update(particles[1], dt, body)]
  /\ last' = [op |-> "update", idx |-> 1, pre |-> particles[1], dt |-> dt, bh |-> body,
              branch |-> UpdateBranch(particles[1], dt, body)]
  /\ UNCHANGED <<cfg, descriptors, pc, schwarzschild_radius, tick, i, capture_tick>>

\* particle.is_captured = True
MarkCaptured ==
  /\ pc = "unit"
  /\ ~particles[1].is_captured
  /\ particles' = [particles EXCEPT ![1].is_captured = TRUE]
  /\ last' = [NoOp EXCEPT !.op = "mark", !.idx = 1]
  /\ UNCHANGED <<cfg, descriptors, pc, schwarzschild_radius, tick, i, capture_tick>>

NextUpdate ==
  \/ \E dt \in UnitSteps, body \in UnitBodies : CallUpdate(dt, body)
  \/ MarkCaptured

SpecUpdate == InitUpdate /\ [][NextUpdate]_vars

(***************************************************************************)
(* run_simulation under edited configuration constants, valid and not.     *)
(***************************************************************************)
Configs == {
  SourceConfig,
  [SourceConfig EXCEPT !.M = 0],
  [SourceConfig EXCEPT !.M = -1000 * ONE],
  [SourceConfig EXCEPT !.TIME_STEP = 0],
  [SourceConfig EXCEPT !.TIME_STEP = -(ONE \div 10)],
  [SourceConfig EXCEPT !.C = 0],
  [SourceConfig EXCEPT !.C = -15 * ONE] }

InitConfig ==
  /\ cfg \in Configs
  /\ descriptors = PARTICLES
  /\ InitBase

SpecConfig == InitConfig /\ [][Next]_vars

(***************************************************************************)
(* Properties.                                                             *)
(***************************************************************************)
Finite(v) == v # NaNVec
IsPrefix(s, t) == Len(s) <= Len(t) /\ SubSeq(t, 1, Len(s)) = s
\* the step taken handles particle i of the loop
IsParticleStep == pc = "loop" /\ i <= Len(particles) /\ i' = i + 1
\* the step taken is a direct call of update
IsCall == pc = "unit" /\ last'.op = "update"

\* C1: a particle whose is_captured is true keeps it true in every later
\* step of the driver.
C1_CaptureIsMonotone ==
  [][\A j \in DOMAIN particles :
        particles[j].is_captured => particles'[j].is_captured]_vars

C1_Witness ==
  \E j \in DOMAIN particles :
     /\ particles[j].is_captured
     /\ capture_tick[j] >= 0
     /\ tick >= capture_tick[j] + 2

\* C2: update on a particle whose is_captured is true changes nothing of
\* the particle, whatever dt and the body position are.
C2_CapturedUpdateIsNoOp ==
  [][(IsCall /\ particles[1].is_captured) => particles'[1] = particles[1]]_vars

C2_Witness ==
  /\ last.op = "update"
  /\ last.pre.is_captured
  /\ last.bh # <<0, 0>>
  /\ last.dt # SourceConfig.TIME_STEP
  /\ Len(particles[1].path) > 1
  /\ particles[1] = last.pre

\* C3: the step of the loop that handles a particle leaves it captured
\* exactly when it was captured before or its position before the step is
\* at a distance strictly less than r_s = 8.889 from the body, and touches
\* no other particle; a particle that starts at (8, 0) is captured by the
\* test of tick 0, a particle that starts at distance exactly r_s is not.
C3_CaptureTestOnPreStepPosition ==
  /\ [][IsParticleStep =>
          /\ particles'[i].is_captured <=>
               \/ particles[i].is_captured
               \/ /\ Finite(particles[i].pos)
                  /\ Norm(VecSub(particles[i].pos, <<0, 0>>)) < 8889
          /\ \A j \in DOMAIN particles : j # i => particles'[j] = particles[j]]_vars
  /\ [](\A j \in DOMAIN particles :
          /\ (particles[j].path[1] = <<8 * ONE, 0>> /\ (tick > 0 \/ i > j))
                => (particles[j].is_captured /\ capture_tick[j] = 0)
          /\ particles[j].path[1] = <<8889, 0>> => capture_tick[j] # 0)

C3_Witness ==
  \E j \in DOMAIN particles :
     /\ particles[j].path[1] = <<8889, 0>>
     /\ particles[j].is_captured
     /\ capture_tick[j] >= 1

\* C4 as stated: a particle captured by the test of tick k has taken the
\* step of tick k as well, so its path has 1 + (k + 1) entries.
C4_OneTickLag ==
  \A j \in DOMAIN particles :
     (capture_tick[j] >= 0 /\ (tick > capture_tick[j] \/ i > j))
        => Len(particles[j].path) = 1 + (capture_tick[j] + 1)

\* C4 amended: the step of the loop whose capture test marks a particle
\* changes nothing of it but the flag, and a particle captured by the test
\* of tick k has a path of 1 + k entries from then on.
C4_NoLag ==
  /\ [][(IsParticleStep /\ ~particles[i].is_captured /\ particles'[i].is_captured)
          => particles'[i] = [particles[i] EXCEPT !.is_captured = TRUE]]_vars
  /\ [](\A j \in DOMAIN particles :
          capture_tick[j] >= 0
             => (particles[j].is_captured /\ Len(particles[j].path) = 1 + capture_tick[j]))

C4_Witness ==
  \E j \in DOMAIN particles :
     /\ capture_tick[j] >= 1
     /\ tick > capture_tick[j]
     /\ Len(particles[j].path) = 1 + capture_tick[j]
     /\ particles[j].pos = particles[j].path[Len(particles[j].path)]

\* the initial position of particle j: its descriptor, offset resolved
InitialPosition(j) ==
  IF "offset_factor" \in DOMAIN descriptors[j]
  THEN <<descriptors[j].pos[1], FxMul(8889, descriptors[j].offset_factor)>>
  ELSE descriptors[j].pos

\* C5: an active particle has a path of 1 + n entries after n completed
\* ticks (one more once the current tick has handled it); every path starts
\* with the initial position, and a step keeps the path as a prefix of the
\* new path, which is at most one entry longer.
C5_PathGrowsByOne ==
  /\ [](\A j \in DOMAIN particles :
          /\ Len(particles[j].path) >= 1
          /\ particles[j].path[1] = InitialPosition(j)
          /\ ~particles[j].is_captured
                => Len(particles[j].path) = 1 + tick + (IF j < i THEN 1 ELSE 0))
  /\ [][\A j \in DOMAIN particles :
          /\ IsPrefix(particles[j].path, particles'[j].path)
          /\ Len(particles'[j].path) <= Len(particles[j].path) + 1]_vars

C5_Witness ==
  \E j \in DOMAIN particles :
     /\ ~particles[j].is_captured
     /\ i = 1
     /\ tick >= 10
     /\ Len(particles[j].path) = 1 + tick
     /\ \E k \in DOMAIN particles : particles[k].is_captured

\* C6: a photon that has taken a step has a velocity of magnitude C (to
\* the precision of the normalisation), the zero vector included.
C6_PhotonSpeedIsC ==
  \A j \in DOMAIN particles :
     (particles[j].is_photon /\ Len(particles[j].path) > 1)
        => /\ Finite(particles[j].vel)
           /\ Abs(Norm(particles[j].vel) - Abs(C)) <= Abs(C) \div ONE + 1

\* C7: update on an active particle at the position of the body changes
\* nothing of the particle and produces no nan.
C7_ZeroDistanceIsSkipped ==
  [][(IsCall /\ ~particles[1].is_captured /\ particles[1].pos = last'.bh)
        => /\ particles'[1] = particles[1]
           /\ Finite(particles'[1].pos)
           /\ Finite(particles'[1].vel)]_vars

C7_Witness ==
  /\ last.op = "update"
  /\ ~last.pre.is_captured
  /\ last.pre.pos = last.bh
  /\ last.pre.vel # <<0, 0>>
  /\ particles[1] = last.pre
  /\ last.branch = "zero"

\* the acceleration G*M/r^2 along r_vec/r at position pos, no particle mass in it
Acceleration(pos, body) ==
  LET r_vec == VecSub(body, pos)
      r_mag == Norm(r_vec)
  IN  VecScale(VecDiv(r_vec, r_mag), FxDiv(FxMul(G, M), FxMul(r_mag, r_mag)))

Near(u, v) == Abs(u[1] - v[1]) <= 1 /\ Abs(u[2] - v[2]) <= 1

\* C8: update on an active particle that is no photon and not at the body
\* sets velocity' = velocity + a*dt with a the acceleration at the position
\* before the step (the same for every particle mass, to one unit of the
\* last place), position' = position + velocity'*dt, and appends position';
\* from (100, 0) with velocity (0, 7.5), dt = 0.1 and the body at the
\* origin it gives velocity (-0.01, 7.5) and position (99.999, 0.75).
C8_EulerStep ==
  [][(IsCall /\ ~particles[1].is_captured /\ ~particles[1].is_photon
        /\ Finite(particles[1].pos) /\ particles[1].pos # last'.bh)
        => LET p == particles[1]
               q == particles'[1]
               v == VecAdd(p.vel, VecScale(Acceleration(p.pos, last'.bh), last'.dt))
           IN  /\ Near(q.vel, v)
               /\ p.mass = ONE => q.vel = v
               /\ q.pos = VecAdd(p.pos, VecScale(q.vel, last'.dt))
               /\ q.path = Append(p.path, q.pos)
               /\ q = [p EXCEPT !.vel = q.vel, !.pos = q.pos, !.path = q.path]
               /\ (p.pos = <<100 * ONE, 0>> /\ p.vel = <<0, 7500>>
                     /\ last'.dt = ONE \div 10 /\ last'.bh = <<0, 0>>)
                    => (q.vel = <<-10, 7500>> /\ q.pos = <<99999, 750>>)]_vars

C8_Witness ==
  /\ last.op = "update"
  /\ ~last.pre.is_captured
  /\ ~last.pre.is_photon
  /\ last.pre.pos = <<100 * ONE, 0>>
  /\ last.pre.vel = <<0, 7500>>
  /\ last.dt = ONE \div 10
  /\ last.bh = <<0, 0>>
  /\ last.pre.mass = 2 * ONE
  /\ particles[1].pos = <<99999, 750>>

\* C9: under a configuration with a non-positive mass, time step or clamp
\* speed run_simulation fails before the loop: no tick runs, no particle is
\* handled.
C9_InvalidConfigFailsFast ==
  (M <= 0 \/ TIME_STEP <= 0 \/ C <= 0)
     => (pc # "loop" /\ tick = 0 /\ last.op # "particle")

\* C10: at every tick boundary, for every particle: the last path entry is
\* the position; every other path entry is at distance >= r_s from the
\* body; a captured particle is at distance < r_s; and no call of update
\* of the loop returns at "r_mag == 0".
C10_TickBoundary ==
  /\ last.branch # "zero"
  /\ (pc = "loop" /\ i = 1)
       => \A j \in DOMAIN particles :
             LET p == particles[j]
                 n == Len(p.path)
             IN  /\ p.path[n] = p.pos
                 /\ \A k \in 1..(n - 1) :
                       /\ Finite(p.path[k])
                       /\ Norm(VecSub(p.path[k], black_hole_pos)) >= schwarzschild_radius
                 /\ p.is_captured
                       => /\ Finite(p.pos)
                          /\ Norm(VecSub(p.pos, black_hole_pos)) < schwarzschild_radius

====
